---- MODULE Spec2Model ----
(***************************************************************************)
(* The to-do application of project2-todo-app: the Redux client store      *)
(* (todoSlice.ts: thunks and reducers), the HTTP client (todoApi.ts) and   *)
(* the in-memory NestJS service (todo.service.ts).                         *)
(*                                                                         *)
(* Time is counted in minutes.  `clock` advances by one whenever a thunk is *)
(* dispatched and whenever the service changes its store, so that every    *)
(* `new Date()` of the code reads a value of its own.                      *)
(***************************************************************************)
EXTENDS Integers, Sequences, FiniteSets, TLC

VARIABLES
  state,     \* the client store: TodoState (todoSlice.ts:11-20)
  server,    \* TodoService: its todos and idCounter (todo.service.ts:8-9)
  thunks,    \* every dispatched thunk, by request number
  clock      \* wall clock, in minutes

vars == <<state, server, thunks, clock>>

----------------------------------------------------------------------------
(* Bounds of the model *)

\* thunks dispatched in one behaviour
MaxOps == 3

\* calls made to TodoService in one behaviour of the service on its own
MaxCalls == 4

----------------------------------------------------------------------------
(* Values *)

\* an optional field: undefined, or a value
Undef == <<>>
Some(v) == <<v>>
IsDef(o) == o # <<>>
Val(o) == o[1]

\* a Date object, and the ISO string JSON.stringify makes of it
DateObj(t) == [rep |-> "Date", t |-> t]
DateStr(t) == [rep |-> "string", t |-> t]
\* the empty string of a cleared date input
EmptyStr == [rep |-> "empty"]
\* JavaScript truthiness of a date string
Truthy(s) == s # EmptyStr
\* new Date(x), x a date string or a Date
NewDate(x) == DateObj(x.t)

Hour == 60
Day == 24 * Hour

\* JSON.stringify then response.json(): Dates arrive as strings, undefined
\* fields are absent
ToJSON(todo) ==
  [todo EXCEPT
     !.dueDate = IF IsDef(todo.dueDate) THEN Some(DateStr(Val(todo.dueDate).t)) ELSE Undef,
     !.createdAt = DateStr(todo.createdAt.t),
     !.updatedAt = DateStr(todo.updatedAt.t)]

ListToJSON(ts) == [i \in 1..Len(ts) |-> ToJSON(ts[i])]

\* Array.prototype.findIndex on ids; 0 stands for -1
FindIndex(ts, id) ==
  IF \E i \in 1..Len(ts) : ts[i].id = id
  THEN CHOOSE i \in 1..Len(ts) : ts[i].id = id /\ \A j \in 1..(i - 1) : ts[j].id # id
  ELSE 0

\* Array.prototype.filter(todo => todo.id !== id)
RECURSIVE FilterOut(_, _)
FilterOut(ts, id) ==
  IF ts = <<>> THEN <<>>
  ELSE IF Head(ts).id = id THEN FilterOut(Tail(ts), id)
       ELSE <<Head(ts)>> \o FilterOut(Tail(ts), id)

Ids(ts) == {ts[i].id : i \in 1..Len(ts)}

\* obj[key] = value and delete obj[key] on a string-keyed object
Put(m, k, v) == [x \in (DOMAIN m) \cup {k} |-> IF x = k THEN v ELSE m[x]]
Del(m, k) == [x \in (DOMAIN m) \ {k} |-> m[x]]

----------------------------------------------------------------------------
(* The server: TodoService *)

\* the seed entities of initializeSeedData, at time now
SeedTodos(now) ==
  << [id |-> "1", title |-> "Welcome", description |-> Some("first"),
      completed |-> FALSE, priority |-> "medium",
      dueDate |-> Some(DateObj(now + 7 * Day)),
      createdAt |-> DateObj(now), updatedAt |-> DateObj(now)],
     [id |-> "2", title |-> "Filtering", description |-> Some("filters"),
      completed |-> FALSE, priority |-> "high",
      dueDate |-> Some(DateObj(now + 3 * Day)),
      createdAt |-> DateObj(now - Hour), updatedAt |-> DateObj(now - Hour)],
     [id |-> "3", title |-> "Sorting", description |-> Some("sorts"),
      completed |-> TRUE, priority |-> "low",
      dueDate |-> Undef,
      createdAt |-> DateObj(now - 2 * Hour), updatedAt |-> DateObj(now - 30)],
     [id |-> "4", title |-> "Create", description |-> Some("form"),
      completed |-> FALSE, priority |-> "medium",
      dueDate |-> Some(DateObj(now + 1 * Day)),
      createdAt |-> DateObj(now - 3 * Hour), updatedAt |-> DateObj(now - 3 * Hour)],
     [id |-> "5", title |-> "Complete", description |-> Some("checkbox"),
      completed |-> FALSE, priority |-> "high",
      dueDate |-> Some(DateObj(now + 2 * Day)),
      createdAt |-> DateObj(now - 4 * Hour), updatedAt |-> DateObj(now - 4 * Hour)] >>

\* new TodoService()
NewTodoService == [todos |-> <<>>, idCounter |-> 1]

\* initializeSeedData without the test of this.todos.length
initializeSeedData_Always(sv, now) == [todos |-> SeedTodos(now), idCounter |-> 6]

initializeSeedData(sv, now) ==
  IF Len(sv.todos) = 0
  THEN [todos |-> SeedTodos(now), idCounter |-> 6]
  ELSE sv

findAll(sv) == sv.todos

\* findOne throws NotFoundException when no entity has the id
NotFound(sv, id) == FindIndex(sv.todos, id) = 0

\* create(dto) without the idCounter++
ServiceCreate_SameCounter(sv, dto, now) ==
  LET todo == [id |-> ToString(sv.idCounter), title |-> dto.title,
               description |-> dto.description, completed |-> FALSE,
               priority |-> dto.priority, dueDate |-> Undef,
               createdAt |-> DateObj(now), updatedAt |-> DateObj(now)]
  IN [sv EXCEPT !.todos = Append(sv.todos, todo)]

ServiceCreate(sv, dto, now) ==
  LET todo == [id |-> ToString(sv.idCounter),
               title |-> dto.title,
               description |-> dto.description,
               completed |-> FALSE,
               priority |-> dto.priority,
               dueDate |-> IF IsDef(dto.dueDate) /\ Truthy(Val(dto.dueDate))
                           THEN Some(NewDate(Val(dto.dueDate))) ELSE Undef,
               createdAt |-> DateObj(now),
               updatedAt |-> DateObj(now)]
  IN [todos |-> Append(sv.todos, todo), idCounter |-> sv.idCounter + 1]

\* update(id, dto) stamping both timestamps
UpdatedEntity_Restamped(todo, dto, now) ==
  [todo EXCEPT
     !.title = IF IsDef(dto.title) THEN Val(dto.title) ELSE @,
     !.completed = IF IsDef(dto.completed) THEN Val(dto.completed) ELSE @,
     !.createdAt = DateObj(now),
     !.updatedAt = DateObj(now)]

\* update(id, dto) assigning every field of the dto, provided or not
UpdatedEntity_AssignsAll(todo, dto, now) ==
  [todo EXCEPT
     !.title = IF IsDef(dto.title) THEN Val(dto.title) ELSE @,
     !.description = dto.description,
     !.completed = IF IsDef(dto.completed) THEN Val(dto.completed) ELSE FALSE,
     !.priority = IF IsDef(dto.priority) THEN Val(dto.priority) ELSE @,
     !.dueDate = IF IsDef(dto.dueDate) /\ Truthy(Val(dto.dueDate))
                 THEN Some(NewDate(Val(dto.dueDate))) ELSE Undef,
     !.updatedAt = DateObj(now)]

\* the entity update(id, dto) leaves in the store and returns
UpdatedEntity(todo, dto, now) ==
  [todo EXCEPT
     !.title = IF IsDef(dto.title) THEN Val(dto.title) ELSE @,
     !.description = IF IsDef(dto.description) THEN dto.description ELSE @,
     !.completed = IF IsDef(dto.completed) THEN Val(dto.completed) ELSE @,
     !.priority = IF IsDef(dto.priority) THEN Val(dto.priority) ELSE @,
     !.dueDate = IF IsDef(dto.dueDate)
                 THEN (IF Truthy(Val(dto.dueDate)) THEN Some(NewDate(Val(dto.dueDate))) ELSE Undef)
                 ELSE @,
     !.updatedAt = DateObj(now)]

\* update(id, dto) on an id the store holds
ServiceUpdate(sv, id, dto, now) ==
  LET i == FindIndex(sv.todos, id)
  IN [sv EXCEPT !.todos[i] = UpdatedEntity(sv.todos[i], dto, now)]

\* remove(id) on an id the store holds: splice(index, 1)
ServiceRemove(sv, id) ==
  LET i == FindIndex(sv.todos, id)
  IN [sv EXCEPT !.todos = SubSeq(sv.todos, 1, i - 1) \o SubSeq(sv.todos, i + 1, Len(sv.todos))]

\* clearAll()
clearAll(sv) == [todos |-> <<>>, idCounter |-> 1]

\* getStatistics() with active taken to be the total
getStatistics_ActiveIsTotal(sv) ==
  LET total == Len(sv.todos)
  IN [total |-> total,
      completed |-> Len(SelectSeq(sv.todos, LAMBDA todo : todo.completed)),
      active |-> total,
      byPriority |-> [high |-> 0, medium |-> 0, low |-> total]]

\* getStatistics()
getStatistics(sv) ==
  LET total == Len(sv.todos)
      completed == Len(SelectSeq(sv.todos, LAMBDA todo : todo.completed))
  IN [total |-> total,
      completed |-> completed,
      active |-> total - completed,
      byPriority |->
        [high |-> Len(SelectSeq(sv.todos, LAMBDA todo : todo.priority = "high")),
         medium |-> Len(SelectSeq(sv.todos, LAMBDA todo : todo.priority = "medium")),
         low |-> Len(SelectSeq(sv.todos, LAMBDA todo : todo.priority = "low"))]]

----------------------------------------------------------------------------
(* The client store: todoSlice *)

Null == <<>>

initialState ==
  [todos |-> <<>>, loading |-> FALSE, error |-> Null,
   filter |-> "all", sort |-> "created",
   optimisticOperations |-> <<>>]

setError(s, payload) == [s EXCEPT !.error = payload]

\* addTodoOptimistic with unshift instead of push
addTodoOptimistic_Unshift(s, todo) ==
  [s EXCEPT !.todos = <<todo>> \o @,
            !.optimisticOperations = Put(@, todo.id, "creating")]

addTodoOptimistic(s, todo) ==
  [s EXCEPT !.todos = Append(@, todo),
            !.optimisticOperations = Put(@, todo.id, "creating")]

updateTodoOptimistic(s, todo) ==
  LET index == FindIndex(s.todos, todo.id)
  IN IF index # 0
     THEN [s EXCEPT !.todos[index] = todo,
                    !.optimisticOperations = Put(@, todo.id, "updating")]
     ELSE s

markTodoAsDeleting(s, id) ==
  [s EXCEPT !.optimisticOperations = Put(@, id, "deleting")]

\* unmarkTodoAsDeleting resetting the whole map instead of deleting one key
unmarkTodoAsDeleting_ClearsAll(s, id) ==
  [s EXCEPT !.optimisticOperations = <<>>]

unmarkTodoAsDeleting(s, id) ==
  [s EXCEPT !.optimisticOperations = Del(@, id)]

\* removeOptimisticTodo without its `delete state.optimisticOperations[...]`
removeOptimisticTodo_KeepsRecord(s, id) ==
  [s EXCEPT !.todos = FilterOut(@, id)]

removeOptimisticTodo(s, id) ==
  [s EXCEPT !.todos = FilterOut(@, id),
            !.optimisticOperations = Del(@, id)]

fetchTodosPending(s) == [s EXCEPT !.loading = TRUE, !.error = Null]

fetchTodosFulfilled(s, payload) == [s EXCEPT !.loading = FALSE, !.todos = payload]

fetchTodosRejected(s, message) == [s EXCEPT !.loading = FALSE, !.error = Some(message)]

\* createTodo.fulfilled taking the temporary entity out and pushing the real one
createTodoFulfilled_MovesLast(s, payload) ==
  [s EXCEPT !.todos = Append(FilterOut(@, payload.tempId), payload.newTodo),
            !.optimisticOperations = Del(@, payload.tempId)]

createTodoFulfilled(s, payload) ==
  LET index == FindIndex(s.todos, payload.tempId)
      replaced == IF index # 0 THEN [s EXCEPT !.todos[index] = payload.newTodo] ELSE s
  IN [replaced EXCEPT !.optimisticOperations = Del(@, payload.tempId)]

createTodoRejected(s, payload) == [s EXCEPT !.error = Some(payload)]

\* updateTodo.fulfilled adding the entity when no entry has its id
updateTodoFulfilled_Upsert(s, serverTodo) ==
  LET index == FindIndex(s.todos, serverTodo.id)
      replaced == IF index # 0 THEN [s EXCEPT !.todos[index] = serverTodo]
                  ELSE [s EXCEPT !.todos = Append(@, serverTodo)]
  IN [replaced EXCEPT !.optimisticOperations = Del(@, serverTodo.id)]

updateTodoFulfilled(s, serverTodo) ==
  LET index == FindIndex(s.todos, serverTodo.id)
      replaced == IF index # 0 THEN [s EXCEPT !.todos[index] = serverTodo] ELSE s
  IN [replaced EXCEPT !.optimisticOperations = Del(@, serverTodo.id)]

updateTodoRejected(s, payload) == [s EXCEPT !.error = Some(payload)]

\* deleteTodo.fulfilled removing by position with an index that is off by one
deleteTodoFulfilled_OffByOne(s, todoId) ==
  LET index == FindIndex(s.todos, todoId)
  IN [s EXCEPT !.todos = SubSeq(@, 1, index) \o SubSeq(@, index + 2, Len(@)),
               !.optimisticOperations = Del(@, todoId)]

deleteTodoFulfilled(s, todoId) ==
  [s EXCEPT !.todos = FilterOut(@, todoId),
            !.optimisticOperations = Del(@, todoId)]

deleteTodoRejected(s, payload) == [s EXCEPT !.error = Some(payload)]

\* toggleTodoComplete.fulfilled that also resets state.error
toggleTodoCompleteFulfilled_ClearsError(s, serverTodo) ==
  LET index == FindIndex(s.todos, serverTodo.id)
      replaced == IF index # 0 THEN [s EXCEPT !.todos[index] = serverTodo] ELSE s
  IN [replaced EXCEPT !.optimisticOperations = Del(@, serverTodo.id), !.error = Null]

toggleTodoCompleteFulfilled(s, serverTodo) ==
  LET index == FindIndex(s.todos, serverTodo.id)
      replaced == IF index # 0 THEN [s EXCEPT !.todos[index] = serverTodo] ELSE s
  IN [replaced EXCEPT !.optimisticOperations = Del(@, serverTodo.id)]

toggleTodoCompleteRejected(s, payload) == [s EXCEPT !.error = Some(payload)]

----------------------------------------------------------------------------
(* The thunks' payload creators: what each computes before its remote call *)

\* `temp-${Date.now()}-${random}`
generateTempId(now, random) == "temp-" \o ToString(now) \o "-" \o random

\* createTodo: the optimistic entity
OptimisticTodo(todoData, tempId, now) ==
  [id |-> tempId,
   title |-> todoData.title,
   description |-> todoData.description,
   completed |-> FALSE,
   priority |-> todoData.priority,
   dueDate |-> IF IsDef(todoData.dueDate) /\ Truthy(Val(todoData.dueDate))
               THEN Some(NewDate(Val(todoData.dueDate))) ELSE Undef,
   createdAt |-> DateObj(now),
   updatedAt |-> DateObj(now)]

\* the overlay taking the baseline's due date when the submitted one is empty
UpdatedTodo_KeepsDateOnEmpty(originalTodo, todoData, now) ==
  [originalTodo EXCEPT
     !.title = IF IsDef(todoData.title) THEN Val(todoData.title) ELSE @,
     !.description = IF IsDef(todoData.description) THEN todoData.description ELSE @,
     !.completed = IF IsDef(todoData.completed) THEN Val(todoData.completed) ELSE @,
     !.priority = IF IsDef(todoData.priority) THEN Val(todoData.priority) ELSE @,
     !.dueDate = IF IsDef(todoData.dueDate) /\ Truthy(Val(todoData.dueDate))
                 THEN Some(NewDate(Val(todoData.dueDate))) ELSE @,
     !.updatedAt = DateObj(now)]

\* updateTodo: todoData overlaid on originalTodo
UpdatedTodo(originalTodo, todoData, now) ==
  [originalTodo EXCEPT
     !.title = IF IsDef(todoData.title) THEN Val(todoData.title) ELSE @,
     !.description = IF IsDef(todoData.description) THEN todoData.description ELSE @,
     !.completed = IF IsDef(todoData.completed) THEN Val(todoData.completed) ELSE @,
     !.priority = IF IsDef(todoData.priority) THEN Val(todoData.priority) ELSE @,
     !.dueDate = IF IsDef(todoData.dueDate)
                 THEN (IF Truthy(Val(todoData.dueDate)) THEN Some(NewDate(Val(todoData.dueDate))) ELSE Undef)
                 ELSE @,
     !.updatedAt = DateObj(now)]

\* the toggled entity without a new updatedAt
ToggledTodo_KeepsUpdatedAt(todo, now) ==
  [todo EXCEPT !.completed = ~todo.completed]

\* toggleTodoComplete: the entity with the completion flag flipped
ToggledTodo(todo, now) ==
  [todo EXCEPT !.completed = ~todo.completed, !.updatedAt = DateObj(now)]

NoChange ==
  [title |-> Undef, description |-> Undef, completed |-> Undef,
   priority |-> Undef, dueDate |-> Undef]

\* the request body of toggleTodoComplete: { completed: !todo.completed }
ToggleRequest(todo) == [NoChange EXCEPT !.completed = Some(~todo.completed)]

----------------------------------------------------------------------------
(* The inputs the model draws from *)

\* a title of spaces only, and String.prototype.trim on the titles of the model
Blank == "  "
Trim(title) == IF title = Blank THEN "" ELSE title

\* CreateTodoRequest values
CreateRequests ==
  { [title |-> "rent", description |-> Some("pay"), priority |-> "high",
     dueDate |-> Some(DateStr(2 * Day))] }

\* a CreateTodoRequest with a blank title
BlankCreateRequests ==
  { [title |-> Blank, description |-> Undef, priority |-> "low",
     dueDate |-> Undef] }

\* UpdateTodoRequest values
UpdateRequests ==
  { [NoChange EXCEPT !.title = Some("edited"), !.dueDate = Some(EmptyStr)] }

\* the random suffix of a temporary id
RandomSuffixes == {"k3x"}

\* the positions of the mirror whose entities are picked as the target of an
\* update, a toggle or a delete: the first and the last
TargetPositions == {1, Len(state.todos)}

\* the entities a caller passes to updateTodo, toggleTodoComplete and
\* deleteTodo: the ones TodoList renders, read from the mirror
Targets == {state.todos[i] : i \in TargetPositions \cap (1..Len(state.todos))}

----------------------------------------------------------------------------
(* Thunks.  A dispatched thunk is "pending" until its remote call comes    *)
(* back ("ok", "failed"), and "fulfilled" or "rejected" once the store has *)
(* processed the result.  `with` records the requests that were in flight  *)
(* when the thunk was dispatched.                                          *)

Thunk(kind, id, todoData, originalTodo, optimistic) ==
  [kind |-> kind, id |-> id, todoData |-> todoData, originalTodo |-> originalTodo,
   optimistic |-> optimistic, status |-> "pending", payload |-> Undef,
   with |-> {r \in 1..Len(thunks) : thunks[r].status \in {"pending", "ok", "failed"}}]

Requests == 1..Len(thunks)
InFlight(r) == thunks[r].status \in {"pending", "ok", "failed"}
Resolved(r) == thunks[r].status \in {"fulfilled", "rejected"}
IsMutation(r) == thunks[r].kind # "fetchTodos"

\* a thunk whose remote call goes out while the store is as it was
Dispatch_CallFirst(thunk, s) ==
  /\ Len(thunks) < MaxOps
  /\ thunks' = Append(thunks, thunk)
  /\ clock' = clock + 1
  /\ UNCHANGED <<state, server>>

Dispatch(thunk, s) ==
  /\ Len(thunks) < MaxOps
  /\ thunks' = Append(thunks, thunk)
  /\ state' = s
  /\ clock' = clock + 1
  /\ UNCHANGED server

\* dispatch(fetchTodos())
FetchTodos ==
  Dispatch(Thunk("fetchTodos", "", Undef, Undef, Undef), fetchTodosPending(state))

\* the createTodo thunk up to its remote call
Create(todoData, random) ==
  LET now == clock + 1
      tempId == generateTempId(now, random)
      optimisticTodo == OptimisticTodo(todoData, tempId, now)
  IN Dispatch(Thunk("createTodo", tempId, todoData, Undef, optimisticTodo),
              addTodoOptimistic(state, optimisticTodo))

\* dispatch(createTodo(todoData))
CreateTodo ==
  \E todoData \in CreateRequests, random \in RandomSuffixes : Create(todoData, random)

\* dispatch(updateTodo({ id: todo.id, todoData, originalTodo: todo }))
UpdateTodo ==
  \E todo \in Targets, todoData \in UpdateRequests :
    LET updatedTodo == UpdatedTodo(todo, todoData, clock + 1)
    IN Dispatch(Thunk("updateTodo", todo.id, todoData, todo, updatedTodo),
                updateTodoOptimistic(state, updatedTodo))

\* dispatch(toggleTodoComplete(todo))
ToggleTodoComplete ==
  \E todo \in Targets :
    LET updatedTodo == ToggledTodo(todo, clock + 1)
    IN Dispatch(Thunk("toggleTodoComplete", todo.id, ToggleRequest(todo), todo, updatedTodo),
                updateTodoOptimistic(state, updatedTodo))

\* dispatch(deleteTodo(todo.id))
DeleteTodo ==
  \E todo \in Targets :
    Dispatch(Thunk("deleteTodo", todo.id, Undef, todo, Undef),
             markTodoAsDeleting(state, todo.id))

----------------------------------------------------------------------------
(* The remote call: todoApi and the controller in front of TodoService *)

\* the message of the Error todoApi throws on a response that is not ok
ApiError(kind) ==
  CASE kind = "fetchTodos" -> "Failed to fetch todos"
    [] kind = "createTodo" -> "Failed to create todo"
    [] kind = "deleteTodo" -> "Failed to delete todo"
    [] OTHER -> "Failed to update todo"

\* the message of the TypeError fetch() rejects with when no response comes
NetworkError == "Failed to fetch"

Respond(r, status, payload, sv) ==
  /\ thunks' = [thunks EXCEPT ![r].status = status, ![r].payload = payload]
  /\ server' = sv
  /\ clock' = IF sv # server THEN clock + 1 ELSE clock
  /\ UNCHANGED state

\* the server handles the request of thunk r and answers
ServerHandle(r) ==
  /\ thunks[r].status = "pending"
  /\ LET t == thunks[r]
         now == clock + 1
     IN CASE t.kind = "fetchTodos" ->
               Respond(r, "ok", ListToJSON(findAll(server)), server)
          [] t.kind = "createTodo" ->
               LET sv == ServiceCreate(server, t.todoData, now)
               IN Respond(r, "ok",
                          [tempId |-> t.id, newTodo |-> ToJSON(sv.todos[Len(sv.todos)])], sv)
          [] t.kind \in {"updateTodo", "toggleTodoComplete"} ->
               IF NotFound(server, t.id)
               THEN Respond(r, "failed", ApiError(t.kind), server)
               ELSE LET sv == ServiceUpdate(server, t.id, t.todoData, now)
                    IN Respond(r, "ok", ToJSON(sv.todos[FindIndex(sv.todos, t.id)]), sv)
          [] t.kind = "deleteTodo" ->
               IF NotFound(server, t.id)
               THEN Respond(r, "failed", ApiError(t.kind), server)
               ELSE Respond(r, "ok", t.id, ServiceRemove(server, t.id))

----------------------------------------------------------------------------
(* The store processes the result of a thunk *)

\* the try branch returns: the thunk's fulfilled action reaches the reducer
Fulfilled(s, t) ==
  CASE t.kind = "fetchTodos" -> fetchTodosFulfilled(s, t.payload)
    [] t.kind = "createTodo" -> createTodoFulfilled(s, t.payload)
    [] t.kind = "updateTodo" -> updateTodoFulfilled(s, t.payload)
    [] t.kind = "deleteTodo" -> deleteTodoFulfilled(s, t.payload)
    [] t.kind = "toggleTodoComplete" -> toggleTodoCompleteFulfilled(s, t.payload)

\* catch branches that return rejectWithValue without dispatching a rollback
Rejected_NoRollback(s, t) ==
  CASE t.kind = "fetchTodos" -> fetchTodosRejected(s, t.payload)
    [] t.kind = "createTodo" -> createTodoRejected(s, t.payload)
    [] t.kind = "updateTodo" -> updateTodoRejected(s, t.payload)
    [] t.kind = "deleteTodo" -> deleteTodoRejected(s, t.payload)
    [] t.kind = "toggleTodoComplete" -> toggleTodoCompleteRejected(s, t.payload)

\* the catch branch: the rollback it dispatches, then the rejected action
Rejected(s, t) ==
  CASE t.kind = "fetchTodos" -> fetchTodosRejected(s, t.payload)
    [] t.kind = "createTodo" ->
         createTodoRejected(removeOptimisticTodo(s, t.id), t.payload)
    [] t.kind = "updateTodo" ->
         updateTodoRejected(updateTodoOptimistic(s, t.originalTodo), t.payload)
    [] t.kind = "deleteTodo" ->
         deleteTodoRejected(unmarkTodoAsDeleting(s, t.id), t.payload)
    [] t.kind = "toggleTodoComplete" ->
         toggleTodoCompleteRejected(updateTodoOptimistic(s, t.originalTodo), t.payload)

\* the remote call of thunk r fails without reaching the service (fetch()
\* rejects): the catch branch runs on the rejection
NetworkFailure(r) ==
  /\ thunks[r].status = "pending"
  /\ state' = Rejected(state, [thunks[r] EXCEPT !.payload = NetworkError])
  /\ thunks' = [thunks EXCEPT ![r].status = "rejected", ![r].payload = NetworkError]
  /\ UNCHANGED <<server, clock>>

\* a thunk that, when its remote call has failed, rolls back and issues the
\* call again
Resolve_Retrying(r) ==
  /\ thunks[r].status \in {"ok", "failed"}
  /\ state' = IF thunks[r].status = "ok" THEN Fulfilled(state, thunks[r])
              ELSE Rejected(state, thunks[r])
  /\ thunks' = [thunks EXCEPT
                  ![r].status = IF thunks[r].status = "ok" THEN "fulfilled" ELSE "pending"]
  /\ UNCHANGED <<server, clock>>

\* the response of thunk r arrives: its try branch returns or its catch runs
Resolve(r) ==
  /\ thunks[r].status \in {"ok", "failed"}
  /\ state' = IF thunks[r].status = "ok" THEN Fulfilled(state, thunks[r])
              ELSE Rejected(state, thunks[r])
  /\ thunks' = [thunks EXCEPT
                  ![r].status = IF thunks[r].status = "ok" THEN "fulfilled" ELSE "rejected"]
  /\ UNCHANGED <<server, clock>>

----------------------------------------------------------------------------
(* The specification *)

\* the store as created, and the service after bootstrap has seeded it
Init ==
  /\ state = initialState
  /\ server = initializeSeedData(NewTodoService, 0)
  /\ thunks = <<>>
  /\ clock = 0

Next ==
  \/ FetchTodos
  \/ CreateTodo
  \/ UpdateTodo
  \/ ToggleTodoComplete
  \/ DeleteTodo
  \/ \E r \in Requests : ServerHandle(r)
  \/ \E r \in Requests : NetworkFailure(r)
  \/ \E r \in Requests : Resolve(r)

Spec == Init /\ [][Next]_vars

\* the same store when callers also pass createTodo a blank title
CreateTodoBlank ==
  \E todoData \in BlankCreateRequests, random \in RandomSuffixes : Create(todoData, random)

NextAnyInput == Next \/ CreateTodoBlank

SpecAnyInput == Init /\ [][NextAnyInput]_vars

\* the same store when a second createTodo is dispatched within the
\* millisecond of the createTodo before it: Date.now() reads the same value
\* and only the Math.random() suffix can tell the two ids apart
SameTickSuffixes == RandomSuffixes \cup {"q7p"}

CreateTodoSameTick ==
  \E todoData \in CreateRequests, random \in SameTickSuffixes :
    /\ Len(thunks) >= 1 /\ Len(thunks) < MaxOps
    /\ thunks[Len(thunks)].kind = "createTodo"
    /\ thunks[Len(thunks)].optimistic.createdAt = DateObj(clock)
    /\ LET tempId == generateTempId(clock, random)
           optimisticTodo == OptimisticTodo(todoData, tempId, clock)
       IN /\ thunks' = Append(thunks, Thunk("createTodo", tempId, todoData, Undef, optimisticTodo))
          /\ state' = addTodoOptimistic(state, optimisticTodo)
    /\ UNCHANGED <<server, clock>>

NextSameTick == Next \/ CreateTodoSameTick

SpecSameTick == Init /\ [][NextSameTick]_vars

----------------------------------------------------------------------------
(* TodoService on its own: its methods called in any order on a service    *)
(* as constructed.  A call that throws NotFoundException changes nothing.  *)

\* the dtos the service is called with
ServiceCreateDtos == CreateRequests \cup BlankCreateRequests
ServiceUpdateDtos ==
  UpdateRequests \cup {[NoChange EXCEPT !.completed = Some(TRUE)]}

ServiceCall(sv) ==
  /\ clock < MaxCalls
  /\ server' = sv
  /\ clock' = clock + 1
  /\ UNCHANGED <<state, thunks>>

CallInitializeSeedData == ServiceCall(initializeSeedData(server, clock + 1))

CallCreate == \E dto \in ServiceCreateDtos : ServiceCall(ServiceCreate(server, dto, clock + 1))

CallUpdate ==
  \E id \in Ids(server.todos) \cup {"99"}, dto \in ServiceUpdateDtos :
    ServiceCall(IF NotFound(server, id) THEN server
                ELSE ServiceUpdate(server, id, dto, clock + 1))

CallRemove ==
  \E id \in Ids(server.todos) \cup {"99"} :
    ServiceCall(IF NotFound(server, id) THEN server ELSE ServiceRemove(server, id))

CallClearAll == ServiceCall(clearAll(server))

InitService ==
  /\ state = initialState
  /\ server = NewTodoService
  /\ thunks = <<>>
  /\ clock = 0

NextService ==
  \/ CallInitializeSeedData
  \/ CallCreate
  \/ CallUpdate
  \/ CallRemove
  \/ CallClearAll

SpecService == InitService /\ [][NextService]_vars

----------------------------------------------------------------------------
(* The same store driven through the components: a thunk is dispatched     *)
(* only by a control that is rendered and enabled.                         *)

HasOp(id) == id \in DOMAIN state.optimisticOperations

isBeingDeleted(id) ==
  HasOp(id) /\ state.optimisticOperations[id] = "deleting"
isBeingUpdated(id) ==
  HasOp(id) /\ state.optimisticOperations[id] = "updating"
isBeingCreated(id) ==
  HasOp(id) /\ state.optimisticOperations[id] = "creating"

\* TodoItem's own `loading`: true from a handler's dispatch until the
\* dispatched thunk settles
ItemLoading(id) ==
  \E r \in Requests :
    /\ thunks[r].kind \in {"updateTodo", "toggleTodoComplete", "deleteTodo"}
    /\ thunks[r].id = id
    /\ InFlight(r)

\* TodoForm's own `loading`
FormLoading == \E r \in Requests : thunks[r].kind = "createTodo" /\ InFlight(r)

\* TodoList renders the form and the items unless state.loading; TodoItem
\* renders nothing for an entity marked 'deleting'
Rendered(id) == Len(thunks) >= 1 /\ ~state.loading /\ ~isBeingDeleted(id)

\* <Checkbox disabled={loading || isBeingUpdated}>
CheckboxEnabled(id) == Rendered(id) /\ ~(ItemLoading(id) \/ isBeingUpdated(id))

\* the Edit button, then the Save button of the edit form
SaveEnabled(id) ==
  /\ Rendered(id)
  /\ ~(ItemLoading(id) \/ isBeingUpdated(id) \/ isBeingCreated(id))
  /\ ~(ItemLoading(id) \/ isBeingUpdated(id))

\* the Delete button, then the Delete button of the dialog
DeleteEnabled(id) ==
  /\ Rendered(id)
  /\ ~(ItemLoading(id) \/ isBeingUpdated(id) \/ isBeingCreated(id))
  /\ ~ItemLoading(id)

\* TodoList's effect on mount
Mount == Len(thunks) = 0 /\ FetchTodos

\* the components are mounted
Mounted == Len(thunks) >= 1

\* `value || undefined` on an optional string field of a form
TextOrUndefined(o) == IF IsDef(o) /\ Val(o) # "" THEN o ELSE Undef
DateOrUndefined(o) == IF IsDef(o) /\ Truthy(Val(o)) THEN o ELSE Undef

\* TodoFilters: the statistics shown above the filters
Statistics(todos) ==
  [totalTodos |-> Len(todos),
   activeTodos |-> Len(SelectSeq(todos, LAMBDA todo : ~todo.completed)),
   completedTodos |-> Len(SelectSeq(todos, LAMBDA todo : todo.completed))]

\* TodoForm.handleSubmit: the submit button is disabled while loading; a
\* blank title sets the form's own error and returns
HandleSubmit ==
  \E formData \in CreateRequests \cup BlankCreateRequests, random \in RandomSuffixes :
    /\ Mounted /\ ~state.loading /\ ~FormLoading
    /\ Trim(formData.title) # ""
    /\ Create([formData EXCEPT !.description = TextOrUndefined(@),
                               !.dueDate = DateOrUndefined(@)], random)

\* TodoItem.handleToggleComplete
HandleToggleComplete ==
  \E todo \in Targets :
    /\ CheckboxEnabled(todo.id)
    /\ LET updatedTodo == ToggledTodo(todo, clock + 1)
       IN Dispatch(Thunk("toggleTodoComplete", todo.id, ToggleRequest(todo), todo, updatedTodo),
                   updateTodoOptimistic(state, updatedTodo))

\* what the edit form of TodoItem can hold when Save is clicked: an edit, or
\* a title blanked out
EditInputs == UpdateRequests \cup {[NoChange EXCEPT !.title = Some(Blank)]}

\* the todoData handleSaveEdit passes to updateTodo for the form's editData
EditTodoData(editData) ==
  [editData EXCEPT !.description = TextOrUndefined(@),
                   !.dueDate = DateOrUndefined(@)]

\* TodoItem.handleSaveEdit
HandleSaveEdit ==
  \E todo \in Targets, editData \in EditInputs :
    /\ SaveEnabled(todo.id)
    /\ IF IsDef(editData.title) /\ Trim(Val(editData.title)) # ""
       THEN LET todoData == EditTodoData(editData)
                updatedTodo == UpdatedTodo(todo, todoData, clock + 1)
            IN Dispatch(Thunk("updateTodo", todo.id, todoData, todo, updatedTodo),
                        updateTodoOptimistic(state, updatedTodo))
       ELSE /\ state' = setError(state, Some("Title is required"))
            /\ UNCHANGED <<server, thunks, clock>>

\* TodoItem.handleDelete
HandleDelete ==
  \E todo \in Targets :
    /\ DeleteEnabled(todo.id)
    /\ Dispatch(Thunk("deleteTodo", todo.id, Undef, todo, Undef),
                markTodoAsDeleting(state, todo.id))

NextUI ==
  \/ Mount
  \/ HandleSubmit
  \/ HandleToggleComplete
  \/ HandleSaveEdit
  \/ HandleDelete
  \/ \E r \in Requests : ServerHandle(r)
  \/ \E r \in Requests : NetworkFailure(r)
  \/ \E r \in Requests : Resolve(r)

SpecUI == Init /\ [][NextUI]_vars

----------------------------------------------------------------------------
(* The view projection: utils/todoUtils.ts *)

FilterTypes == {"all", "active", "completed"}
SortTypes == {"created", "priority", "dueDate"}

\* filterTodos with the 'active' case falling through to the default
filterTodos_ActiveIsAll(todos, filter) ==
  IF filter = "completed" THEN SelectSeq(todos, LAMBDA todo : todo.completed)
  ELSE todos

\* filterTodos(todos, filter)
filterTodos(todos, filter) ==
  CASE filter = "active" -> SelectSeq(todos, LAMBDA todo : ~todo.completed)
    [] filter = "completed" -> SelectSeq(todos, LAMBDA todo : todo.completed)
    [] OTHER -> todos

\* const priorityOrder = { high: 3, medium: 2, low: 1 }
priorityOrder(priority) ==
  CASE priority = "high" -> 3
    [] priority = "medium" -> 2
    [] priority = "low" -> 1

\* !todo.dueDate: the field is undefined or the empty string
NoDueDate(todo) == ~IsDef(todo.dueDate) \/ ~Truthy(Val(todo.dueDate))

\* new Date(x).getTime()
GetTime(x) == NewDate(x).t

\* the comparators with the operands of every difference exchanged
Compare_Ascending(sort, a, b) ==
  CASE sort = "priority" -> priorityOrder(a.priority) - priorityOrder(b.priority)
    [] sort = "dueDate" ->
         IF NoDueDate(a) /\ NoDueDate(b) THEN 0
         ELSE IF NoDueDate(a) THEN 1
         ELSE IF NoDueDate(b) THEN -1
         ELSE GetTime(Val(b.dueDate)) - GetTime(Val(a.dueDate))
    [] OTHER -> GetTime(a.createdAt) - GetTime(b.createdAt)

\* the comparators sortTodos passes to Array.prototype.sort
Compare(sort, a, b) ==
  CASE sort = "priority" -> priorityOrder(b.priority) - priorityOrder(a.priority)
    [] sort = "dueDate" ->
         IF NoDueDate(a) /\ NoDueDate(b) THEN 0
         ELSE IF NoDueDate(a) THEN 1
         ELSE IF NoDueDate(b) THEN -1
         ELSE GetTime(Val(a.dueDate)) - GetTime(Val(b.dueDate))
    [] OTHER -> GetTime(b.createdAt) - GetTime(a.createdAt)

\* one element put into a sorted sequence, behind the elements it does not
\* precede: Array.prototype.sort is stable
InsertSorted(sorted, x, sort) ==
  LET before == {i \in 1..Len(sorted) : Compare(sort, sorted[i], x) > 0}
      k == IF before = {} THEN Len(sorted) + 1
           ELSE CHOOSE i \in before : \A j \in before : i <= j
  IN SubSeq(sorted, 1, k - 1) \o <<x>> \o SubSeq(sorted, k, Len(sorted))

\* [...todos].sort(comparator)
RECURSIVE sortTodos(_, _)
sortTodos(todos, sort) ==
  IF todos = <<>> THEN <<>>
  ELSE InsertSorted(sortTodos(SubSeq(todos, 1, Len(todos) - 1), sort),
                    todos[Len(todos)], sort)

\* getFilteredAndSortedTodos(todos, filter, sort)
getFilteredAndSortedTodos(todos, filter, sort) ==
  sortTodos(filterTodos(todos, filter), sort)

\* the array passed to sortTodos as a sort without the copy leaves it
ArgumentAfterSort_InPlace(todos, sort) == sortTodos(todos, sort)

\* the array passed to sortTodos as the call leaves it: sort() reorders
\* sortedTodos, the copy [...todos], not the argument
ArgumentAfterSort(todos, sort) == todos

\* the array passed to getFilteredAndSortedTodos as the call leaves it:
\* Array.prototype.filter returns a new array, the default case of
\* filterTodos hands the argument itself on to sortTodos
ArgumentAfterProjection(todos, filter, sort) ==
  IF filter \in {"active", "completed"} THEN todos
  ELSE ArgumentAfterSort(todos, sort)

----------------------------------------------------------------------------
(* Vocabulary of the properties *)

\* the mirror entries that carry the identifier
Entries(s, id) == {s.todos[i] : i \in {j \in 1..Len(s.todos) : s.todos[j].id = id}}

HasRecord(s, id) == id \in DOMAIN s.optimisticOperations

IsUpdate(r) == thunks[r].kind \in {"updateTodo", "toggleTodoComplete"}

\* one of the two was dispatched while the other was in flight
Overlap(r1, r2) == r1 \in thunks[r2].with \/ r2 \in thunks[r1].with

\* no other mutation on the identifier of r was in flight while r was
Alone(r) ==
  \A r2 \in Requests \ {r} :
    (IsMutation(r2) /\ thunks[r2].id = thunks[r].id) => ~Overlap(r, r2)

\* this step processes the failure, or the success, of thunk r
Rejecting(r) == InFlight(r) /\ thunks'[r].status = "rejected"
Fulfilling(r) == InFlight(r) /\ thunks'[r].status = "fulfilled"

----------------------------------------------------------------------------
\* C1: when an update or a toggle on X with baseline B fails and no other
\* mutation on X was in flight meanwhile, the mirror entry for X equals B
\* in every field after the failure is processed.
C1_RollbackRestoresBaseline ==
  [][\A r \in Requests :
       (IsUpdate(r) /\ Rejecting(r) /\ Alone(r))
         => Entries(state', thunks[r].id) = {thunks[r].originalTodo}]_vars

\* U1 = r1 and U2 = r2 are two updates on one identifier, U2 dispatched while
\* U1 was in flight, and nothing else touched that identifier or the list
\* meanwhile: every other request in flight with them is a mutation on
\* another identifier
SupersedingPair(r1, r2) ==
  /\ r1 < r2 /\ IsUpdate(r1) /\ IsUpdate(r2)
  /\ thunks[r1].id = thunks[r2].id
  /\ r1 \in thunks[r2].with
  /\ \A q \in Requests \ {r1, r2} :
       (Overlap(q, r1) \/ Overlap(q, r2))
         => (IsMutation(q) /\ thunks[q].id # thunks[r1].id)

\* this step resolves the later of r1 and r2
BothResolvedNow(r1, r2) ==
  /\ InFlight(r1) \/ InFlight(r2)
  /\ thunks'[r1].status \in {"fulfilled", "rejected"}
  /\ thunks'[r2].status \in {"fulfilled", "rejected"}

\* C2: U1 then U2 on one identifier, U1 fails and U2 succeeds: once both
\* have resolved, in either order, the mirror entry is the entity the
\* server returned for U2.
C2_SupersedingKeepsConfirmed ==
  [][\A r1, r2 \in Requests :
       (/\ SupersedingPair(r1, r2)
        /\ BothResolvedNow(r1, r2)
        /\ thunks'[r1].status = "rejected"
        /\ thunks'[r2].status = "fulfilled")
         => Entries(state', thunks[r2].id) = {thunks'[r2].payload}]_vars

\* C6: U1 then U2 on one identifier, both fail: once both failures are
\* processed, in either order, the mirror entry is the value it held before
\* U1 was submitted.
C6_NoRollbackToWrongBaseline ==
  [][\A r1, r2 \in Requests :
       (/\ SupersedingPair(r1, r2)
        /\ BothResolvedNow(r1, r2)
        /\ thunks'[r1].status = "rejected"
        /\ thunks'[r2].status = "rejected")
         => Entries(state', thunks[r1].id) = {thunks[r1].originalTodo}]_vars

Range(f) == {f[i] : i \in DOMAIN f}

\* the first request is the initial fetchTodos and it was fulfilled before
\* anything else was dispatched: the mirror starts as a copy of the server
LoadedFirst ==
  /\ Len(thunks) >= 1
  /\ thunks[1].kind = "fetchTodos"
  /\ \A q \in Requests \ {1} : 1 \notin thunks[q].with

\* C3: when every remote call succeeded and all calls have resolved, the
\* entities of the mirror are the entities the server holds.
C3_ConvergenceUnderSuccess ==
  (/\ LoadedFirst
   /\ \A r \in Requests : thunks[r].status = "fulfilled")
    => Range(state.todos) = Range(ListToJSON(server.todos))

\* the number of mirror entries that carry the identifier
Count(s, id) == Cardinality({i \in 1..Len(s.todos) : s.todos[i].id = id})

\* C4: after a createTodo is confirmed the mirror holds the entity the
\* server returned exactly once, holds no entity with the temporary id, and
\* there is no pending record for the temporary id.
C4_CreateConfirmation ==
  [][\A r \in Requests :
       (thunks[r].kind = "createTodo" /\ Fulfilling(r))
         => LET newTodo == thunks[r].payload.newTodo
            IN /\ Entries(state', newTodo.id) = {newTodo}
               /\ Count(state', newTodo.id) = 1
               /\ Count(state', thunks[r].id) = 0
               /\ ~HasRecord(state', thunks[r].id)]_vars

\* the entries that do not carry the identifier, in mirror order
Others(s, id) == SelectSeq(s.todos, LAMBDA e : e.id # id)

\* C5: after a failed createTodo is processed the mirror holds no entity
\* with the temporary id, there is no pending record for it, every other
\* entry is as it was, and state.error is the failure message.
C5_CreateRollback ==
  [][\A r \in Requests :
       (thunks[r].kind = "createTodo" /\ Rejecting(r))
         => /\ Count(state', thunks[r].id) = 0
            /\ ~HasRecord(state', thunks[r].id)
            /\ Others(state', thunks[r].id) = Others(state, thunks[r].id)
            /\ state'.error = Some(thunks'[r].payload)
            /\ thunks'[r].payload \in {ApiError("createTodo"), NetworkError}]_vars

\* a createTodo has failed: its temporary entity and record are gone, other
\* entries are in the mirror, and the error is shown
C5_Witness ==
  \E r \in Requests :
    /\ thunks[r].kind = "createTodo" /\ thunks[r].status = "rejected"
    /\ thunks[r].optimistic \notin Range(state.todos)
    /\ ~HasRecord(state, thunks[r].id)
    /\ Len(state.todos) >= 2
    /\ state.error = Some(NetworkError)

\* C7: at most one remote mutation call is in flight for any identifier.
C7_OnePendingMutationPerId ==
  \A r1, r2 \in Requests :
    (/\ r1 # r2
     /\ IsMutation(r1) /\ IsMutation(r2)
     /\ InFlight(r1) /\ InFlight(r2))
      => thunks[r1].id # thunks[r2].id

\* C8: once a mutation on X has resolved and no mutation on X is in flight,
\* optimisticOperations has no entry for X.
C8_RecordOnlyWhileInFlight ==
  \A r \in Requests :
    (/\ IsMutation(r) /\ Resolved(r)
     /\ \A q \in Requests : (IsMutation(q) /\ InFlight(q)) => thunks[q].id # thunks[r].id)
      => ~HasRecord(state, thunks[r].id)

\* C9: while a deleteTodo is in flight the entity stays in the mirror with
\* the fields it had at submission and is marked 'deleting'; when the delete
\* fails the mark is cleared and the entity is in the mirror, as it was and
\* where it was.
C9_DeleteReversible ==
  [][\A r \in Requests :
       thunks[r].kind = "deleteTodo"
         => /\ thunks'[r].status \in {"pending", "ok", "failed"}
                 => /\ Entries(state', thunks[r].id) = {thunks[r].originalTodo}
                    /\ HasRecord(state', thunks[r].id)
                    /\ state'.optimisticOperations[thunks[r].id] = "deleting"
            /\ Rejecting(r)
                 => /\ ~HasRecord(state', thunks[r].id)
                    /\ Entries(state', thunks[r].id) = {thunks[r].originalTodo}
                    /\ state'.todos = state.todos]_vars

\* C10: after a deleteTodo on X is confirmed the mirror holds no entity
\* with id X, there is no pending record for X, and the other entities keep
\* their values and their order.
C10_DeleteConfirmation ==
  [][\A r \in Requests :
       (thunks[r].kind = "deleteTodo" /\ Fulfilling(r))
         => /\ Count(state', thunks[r].id) = 0
            /\ ~HasRecord(state', thunks[r].id)
            /\ Others(state', thunks[r].id) = Others(state, thunks[r].id)]_vars

\* a deleteTodo has been confirmed: the entity and its record are gone, the
\* other four seed entities are still there
C10_Witness ==
  \E r \in Requests :
    /\ thunks[r].kind = "deleteTodo" /\ thunks[r].status = "fulfilled"
    /\ Count(state, thunks[r].id) = 0
    /\ ~HasRecord(state, thunks[r].id)
    /\ Len(state.todos) = 4

\* C11: the sequence getFilteredAndSortedTodos returns, for any filter and
\* sort, contains no entity whose identifier is marked 'deleting'.
C11_ProjectionExcludesDeleting ==
  \A filter \in FilterTypes, sort \in SortTypes :
    \A i \in DOMAIN getFilteredAndSortedTodos(state.todos, filter, sort) :
      ~isBeingDeleted(getFilteredAndSortedTodos(state.todos, filter, sort)[i].id)

\* C12: after a create, update, toggle or delete remote call fails,
\* state.error is non-null and the surfaced error identifies the mutation:
\* no failed mutation of another kind or on another identifier surfaces
\* the same error value.
C12_FailureSurfacedWithKindAndId ==
  [][\A r \in Requests :
       (IsMutation(r) /\ Rejecting(r))
         => /\ state'.error # Null
            /\ state'.error = Some(thunks'[r].payload)
            /\ \A q \in Requests :
                 (/\ IsMutation(q)
                  /\ thunks'[q].status = "rejected"
                  /\ thunks'[q].payload = thunks'[r].payload)
                   => /\ thunks[q].kind = thunks[r].kind
                      /\ thunks[q].id = thunks[r].id]_vars

Priorities == {"low", "medium", "high"}

\* the fields of a create or an update request pass validation
ValidRequest(todoData) ==
  /\ IsDef(todoData.title) => Trim(Val(todoData.title)) # ""
  /\ IsDef(todoData.priority) => Val(todoData.priority) \in Priorities

\* C13: no createTodo or updateTodo with a blank title or an invalid
\* priority gets as far as its optimistic apply and its remote call, and
\* the server stores no entity with a blank title or an invalid priority.
C13_ValidationBeforeApply ==
  /\ \A r \in Requests :
       /\ thunks[r].kind = "createTodo"
            => /\ Trim(thunks[r].todoData.title) # ""
               /\ thunks[r].todoData.priority \in Priorities
       /\ thunks[r].kind = "updateTodo" => ValidRequest(thunks[r].todoData)
  /\ \A i \in DOMAIN server.todos :
       /\ Trim(server.todos[i].title) # ""
       /\ server.todos[i].priority \in Priorities

\* the identifiers a mutation works on: the one it was given and, for a
\* create the server has answered, the identifier the server assigned
TouchedBy(t) ==
  {t.id} \cup (IF t.kind = "createTodo" /\ t.status \in {"ok", "fulfilled"}
               THEN {t.payload.newTodo.id} ELSE {})

\* this step leaves the entries and the records of all identifiers outside
\* X as they were, in value and in order
FrameOutside(X) ==
  /\ SelectSeq(state'.todos, LAMBDA e : e.id \notin X)
       = SelectSeq(state.todos, LAMBDA e : e.id \notin X)
  /\ (DOMAIN state'.optimisticOperations) \ X = (DOMAIN state.optimisticOperations) \ X
  /\ \A id \in (DOMAIN state.optimisticOperations) \ X :
       state'.optimisticOperations[id] = state.optimisticOperations[id]

\* C14: every store step of a mutation on X (optimistic apply, confirmation,
\* rollback) leaves the mirror entries and the pending records of every
\* other identifier unchanged.
C14_OtherIdsUntouched ==
  [][\A r \in 1..Len(thunks') :
       (/\ thunks'[r].kind # "fetchTodos"
        /\ (r > Len(thunks) \/ thunks'[r].status # thunks[r].status))
         => FrameOutside(TouchedBy(thunks'[r]))]_vars

\* a mutation has failed and was rolled back while a mutation on another
\* identifier was in flight, whose optimistic entity and record are intact
C14_Witness ==
  \E r, q \in Requests :
    /\ IsMutation(r) /\ thunks[r].status = "rejected"
    /\ IsMutation(q) /\ InFlight(q) /\ (q \in thunks[r].with \/ r \in thunks[q].with)
    /\ thunks[q].id # thunks[r].id
    /\ thunks[q].kind \in {"createTodo", "updateTodo", "toggleTodoComplete"}
    /\ thunks[q].optimistic \in Range(state.todos)
    /\ HasRecord(state, thunks[q].id)

\* the updateTodo thunk that toggleTodoComplete thunk t is compared with:
\* updateTodo({id: entity.id, todoData: {completed: !entity.completed},
\* originalTodo: entity})
UpdateTwin(t) ==
  [t EXCEPT !.kind = "updateTodo",
            !.todoData = [NoChange EXCEPT !.completed = Some(~t.originalTodo.completed)]]

\* what the remote call of an update thunk t comes back with
UpdateResponse(t) ==
  IF NotFound(server, t.id) THEN ApiError(t.kind)
  ELSE LET sv == ServiceUpdate(server, t.id, t.todoData, clock + 1)
       IN ToJSON(sv.todos[FindIndex(sv.todos, t.id)])

\* C15: at every step of a toggleTodoComplete (optimistic apply, remote
\* call, confirmation, rollback) the store is what the corresponding
\* updateTodo produces from the same state with the same remote outcome,
\* and the optimistic entity differs from the given one in the completion
\* flag and updatedAt only.
C15_ToggleIsUpdate ==
  [][\A r \in 1..Len(thunks') :
       thunks'[r].kind = "toggleTodoComplete"
         => LET t == thunks'[r]
                twin == UpdateTwin(t)
                entity == t.originalTodo
            IN /\ r > Len(thunks)
                    => /\ t.todoData = twin.todoData
                       /\ t.optimistic = UpdatedTodo(entity, twin.todoData, clock')
                       /\ state' = updateTodoOptimistic(state, UpdatedTodo(entity, twin.todoData, clock'))
                       /\ t.optimistic = [entity EXCEPT !.completed = ~entity.completed,
                                                        !.updatedAt = t.optimistic.updatedAt]
               /\ (r <= Len(thunks) /\ thunks[r].status = "pending" /\ t.status \in {"ok", "failed"})
                    => t.payload = UpdateResponse(UpdateTwin(thunks[r]))
               /\ (r <= Len(thunks) /\ Fulfilling(r)) => state' = Fulfilled(state, twin)
               /\ (r <= Len(thunks) /\ Rejecting(r)) => state' = Rejected(state, twin)]_vars

\* one toggle has been rolled back and another confirmed, and the mirror
\* holds the baseline of the first and the server's entity of the second
C15_Witness ==
  \E r, q \in Requests :
    /\ thunks[r].kind = "toggleTodoComplete" /\ thunks[r].status = "rejected"
    /\ thunks[q].kind = "toggleTodoComplete" /\ thunks[q].status = "fulfilled"
    /\ thunks[r].originalTodo \in Range(state.todos)
    /\ thunks[q].payload \in Range(state.todos)

\* the identifier starts with 'temp-'
IsTempId(id) == Len(id) >= 5 /\ SubSeq(id, 1, 5) = "temp-"

\* the instant a submitted due date string stands for, if any
SubmittedDueDate(todoData) ==
  IF IsDef(todoData.dueDate) /\ Truthy(Val(todoData.dueDate))
  THEN Some(Val(todoData.dueDate).t) ELSE Undef

\* the instant of the due date an entity carries, if any
DueDateOf(todo) == IF IsDef(todo.dueDate) THEN Some(Val(todo.dueDate).t) ELSE Undef

\* C16: the step that submits a createTodo appends exactly one entity to
\* state.todos, last, with a temporary id, completed = false and the
\* submitted title, description, priority and due date, and maps that id to
\* 'creating' in optimisticOperations.
C16_OptimisticCreate ==
  [][\A r \in 1..Len(thunks') :
       (r > Len(thunks) /\ thunks'[r].kind = "createTodo")
         => LET todoData == thunks'[r].todoData
                n == Len(state'.todos)
            IN /\ n = Len(state.todos) + 1
               /\ SubSeq(state'.todos, 1, n - 1) = state.todos
               /\ IsTempId(state'.todos[n].id)
               /\ state'.todos[n].id = thunks'[r].id
               /\ state'.todos[n].completed = FALSE
               /\ state'.todos[n].title = todoData.title
               /\ state'.todos[n].description = todoData.description
               /\ state'.todos[n].priority = todoData.priority
               /\ DueDateOf(state'.todos[n]) = SubmittedDueDate(todoData)
               /\ HasRecord(state', state'.todos[n].id)
               /\ state'.optimisticOperations[state'.todos[n].id] = "creating"
               /\ \A id \in DOMAIN state.optimisticOperations :
                    id # state'.todos[n].id
                      => state'.optimisticOperations[id] = state.optimisticOperations[id]]_vars

\* a createTodo is in flight on a loaded mirror: the temporary entity is the
\* sixth and last entry and is marked 'creating'
C16_Witness ==
  \E r \in Requests :
    /\ thunks[r].kind = "createTodo" /\ thunks[r].status = "pending"
    /\ Len(state.todos) = 6
    /\ state.todos[6] = thunks[r].optimistic
    /\ IsTempId(state.todos[6].id)
    /\ isBeingCreated(state.todos[6].id)

\* C17: every identifier that has an entry in optimisticOperations has an
\* entity in state.todos.
C17_RecordsHaveEntities ==
  DOMAIN state.optimisticOperations \subseteq Ids(state.todos)

\* C18: no two entities of state.todos have the same id.
C18_MirrorIdsUnique ==
  \A i, j \in DOMAIN state.todos :
    state.todos[i].id = state.todos[j].id => i = j

\* the identifier is a decimal numeral, as TodoService.create assigns them
\* (idCounter.toString())
IsDecimal(id) ==
  /\ Len(id) >= 1
  /\ \A i \in 1..Len(id) :
       SubSeq(id, i, i) \in {"0", "1", "2", "3", "4", "5", "6", "7", "8", "9"}

\* C19: the id createTodo gives its optimistic entity starts with 'temp-',
\* is no identifier the server assigns (those are decimal counters), and
\* differs from the temporary id of every other createTodo call.
C19_TempIdsFresh ==
  /\ \A i \in DOMAIN server.todos : IsDecimal(server.todos[i].id)
  /\ IsDecimal(ToString(server.idCounter))
  /\ \A r \in Requests :
       thunks[r].kind = "createTodo"
         => /\ IsTempId(thunks[r].id)
            /\ ~IsDecimal(thunks[r].id)
            /\ \A q \in Requests \ {r} :
                 thunks[q].kind = "createTodo" => thunks[q].id # thunks[r].id

\* C20: a mutation thunk issues its remote call once: a thunk whose call has
\* come back or failed never has a call outstanding again, a resolved thunk
\* does nothing more, and the server store changes only in a step that
\* handles the outstanding call of some thunk.
C20_NoAutomaticRetry ==
  [][/\ \A r \in Requests :
          IsMutation(r)
            => /\ thunks[r].status # "pending" => thunks'[r].status # "pending"
               /\ Resolved(r) => thunks'[r].status = thunks[r].status
     /\ server' # server
          => \E r \in Requests :
               thunks[r].status = "pending" /\ thunks'[r].status = "ok"]_vars

\* a mutation has failed on the server and was rolled back, and a later
\* thunk was dispatched after that with no call of the failed one pending
C20_Witness ==
  \E r, q \in Requests :
    /\ IsMutation(r) /\ thunks[r].status = "rejected"
    /\ thunks[r].payload = ApiError(thunks[r].kind)
    /\ q > r /\ r \notin thunks[q].with

\* the thunks whose remote call succeeded: their payload is what the
\* fulfilled action carries
Succeeded(r) == thunks[r].status \in {"ok", "fulfilled"}

\* C21: processing the successful result of an updateTodo, a
\* toggleTodoComplete or a createTodo a second time leaves state.todos and
\* optimisticOperations as they were after the first time.
C21_ConfirmationIdempotent ==
  \A r \in Requests :
    (Succeeded(r) /\ thunks[r].kind \in {"createTodo", "updateTodo", "toggleTodoComplete"})
      => LET once == Fulfilled(state, thunks[r])
             twice == Fulfilled(once, thunks[r])
         IN /\ twice.todos = once.todos
            /\ twice.optimisticOperations = once.optimisticOperations

\* the entity carries, field by field, the baseline's value where the change
\* set has none and the change set's value where it has one; an empty due
\* date in the change set clears the field
IsOverlay(entity, baseline, changes) ==
  /\ entity.id = baseline.id
  /\ entity.title = IF IsDef(changes.title) THEN Val(changes.title) ELSE baseline.title
  /\ entity.description = IF IsDef(changes.description) THEN changes.description
                          ELSE baseline.description
  /\ entity.completed = IF IsDef(changes.completed) THEN Val(changes.completed)
                        ELSE baseline.completed
  /\ entity.priority = IF IsDef(changes.priority) THEN Val(changes.priority)
                       ELSE baseline.priority
  /\ DueDateOf(entity) = IF IsDef(changes.dueDate) THEN SubmittedDueDate(changes)
                         ELSE DueDateOf(baseline)

\* the contents of the edit form that make handleSaveEdit dispatch thunk t
SavedEdits(t) ==
  {editData \in EditInputs :
     /\ IsDef(editData.title) /\ Trim(Val(editData.title)) # ""
     /\ EditTodoData(editData) = t.todoData}

\* C22: the optimistic entity of every updateTodo is the overlay of its
\* change set on its baseline, and for an update submitted through the edit
\* form of TodoItem it is the overlay of what the form held.
C22_UpdateOverlay ==
  \A r \in Requests :
    thunks[r].kind = "updateTodo"
      => /\ IsOverlay(thunks[r].optimistic, thunks[r].originalTodo, thunks[r].todoData)
         /\ \A editData \in SavedEdits(thunks[r]) :
              IsOverlay(thunks[r].optimistic, thunks[r].originalTodo, editData)

\* the first half of C22 alone: the thunk's overlay of the change set it is
\* given
OverlayOfChangeSet ==
  \A r \in Requests :
    thunks[r].kind = "updateTodo"
      => IsOverlay(thunks[r].optimistic, thunks[r].originalTodo, thunks[r].todoData)

\* C23: an update or a remove of an id the server store does not hold fails
\* with NotFound and leaves the store and idCounter as they were; the client
\* then rolls the mutation back as for any failure: the error is set, a
\* delete loses its mark, an update leaves the baseline in the mirror.
C23_ServerNotFound ==
  [][\A r \in Requests :
       thunks[r].kind \in {"updateTodo", "toggleTodoComplete", "deleteTodo"}
         => /\ (/\ thunks[r].status = "pending"
                /\ thunks'[r].status \in {"ok", "failed"}
                /\ NotFound(server, thunks[r].id))
                 => /\ thunks'[r].status = "failed"
                    /\ thunks'[r].payload = ApiError(thunks[r].kind)
                    /\ server' = server
            /\ (thunks[r].status = "failed" /\ thunks'[r].status # "failed")
                 => /\ thunks'[r].status = "rejected"
                    /\ state'.error = Some(ApiError(thunks[r].kind))
                    /\ Others(state', thunks[r].id) = Others(state, thunks[r].id)
                    /\ thunks[r].kind = "deleteTodo"
                         => /\ ~HasRecord(state', thunks[r].id)
                            /\ state'.todos = state.todos
                    /\ thunks[r].kind # "deleteTodo"
                         => \A e \in Entries(state', thunks[r].id) : e = thunks[r].originalTodo]_vars

\* an update of an id the server does not hold was answered NotFound and
\* rolled back: the baseline is in the mirror and the error is shown
C23_Witness ==
  \E r \in Requests :
    /\ thunks[r].kind \in {"updateTodo", "toggleTodoComplete"}
    /\ thunks[r].status = "rejected"
    /\ thunks[r].payload = ApiError(thunks[r].kind)
    /\ NotFound(server, thunks[r].id)
    /\ thunks[r].originalTodo \in Range(state.todos)
    /\ state.error = Some(ApiError(thunks[r].kind))

\* the number a decimal identifier stands for
IdNumber(id) == CHOOSE n \in 0..(MaxCalls + 8) : ToString(n) = id

\* C24: the entities of TodoService.todos have pairwise distinct ids, every
\* stored id is numerically less than idCounter, and update leaves the id of
\* every entity as it was.
C24_ServerIdsUniqueAndStable ==
  /\ \A i, j \in DOMAIN server.todos :
       server.todos[i].id = server.todos[j].id => i = j
  /\ \A i \in DOMAIN server.todos :
       /\ IsDecimal(server.todos[i].id)
       /\ IdNumber(server.todos[i].id) < server.idCounter
  /\ \A i \in DOMAIN server.todos, dto \in ServiceUpdateDtos :
       LET sv == ServiceUpdate(server, server.todos[i].id, dto, clock + 1)
       IN /\ Len(sv.todos) = Len(server.todos)
          /\ \A k \in DOMAIN server.todos : sv.todos[k].id = server.todos[k].id
          /\ sv.idCounter = server.idCounter

\* seeded, then an entity created, one removed and one updated
C24_Witness ==
  /\ server.idCounter = 7
  /\ Len(server.todos) = 5
  /\ "6" \in Ids(server.todos)
  /\ \E i \in DOMAIN server.todos : server.todos[i].updatedAt = DateObj(clock)
  /\ clock = 4

\* sub is what is left of seq when some of its elements are taken out
RECURSIVE IsSubsequenceOf(_, _)
IsSubsequenceOf(sub, seq) ==
  IF sub = <<>> THEN TRUE
  ELSE IF seq = <<>> THEN FALSE
  ELSE IF Head(sub) = Head(seq) THEN IsSubsequenceOf(Tail(sub), Tail(seq))
  ELSE IsSubsequenceOf(sub, Tail(seq))

\* the positions of the mirror whose entity has the given completed flag
PositionsWith(completed) ==
  {i \in DOMAIN state.todos : state.todos[i].completed = completed}

\* C25: on the mirror, filterTodos 'active' returns exactly the entities
\* with completed = false, 'completed' exactly those with completed = true,
\* 'all' every entity; the active and the completed results are disjoint,
\* together they hold every entity, each result in the order of the input.
C25_FilterSemantics ==
  LET all == filterTodos(state.todos, "all")
      active == filterTodos(state.todos, "active")
      completed == filterTodos(state.todos, "completed")
  IN /\ all = state.todos
     /\ \A i \in DOMAIN active : active[i].completed = FALSE
     /\ \A i \in DOMAIN completed : completed[i].completed = TRUE
     /\ Len(active) = Cardinality(PositionsWith(FALSE))
     /\ Len(completed) = Cardinality(PositionsWith(TRUE))
     /\ IsSubsequenceOf(active, state.todos)
     /\ IsSubsequenceOf(completed, state.todos)
     /\ Range(active) \cap Range(completed) = {}
     /\ Range(active) \cup Range(completed) = Range(state.todos)
     /\ Len(active) + Len(completed) = Len(state.todos)

\* a mirror that holds a completed entity between two active ones and an
\* active one between two completed ones
C25_Witness ==
  /\ \E i, j, k \in DOMAIN state.todos :
       /\ i < j /\ j < k
       /\ ~state.todos[i].completed /\ state.todos[j].completed /\ ~state.todos[k].completed
  /\ \E i, j, k \in DOMAIN state.todos :
       /\ i < j /\ j < k
       /\ state.todos[i].completed /\ ~state.todos[j].completed /\ state.todos[k].completed

\* high > medium > low
Rank(todo) == IF todo.priority = "high" THEN 3 ELSE IF todo.priority = "medium" THEN 2 ELSE 1

\* the sequence is ordered by the key
OrderedBy(sorted, sort) ==
  \A i, j \in DOMAIN sorted :
    i < j =>
      CASE sort = "created" -> sorted[i].createdAt.t >= sorted[j].createdAt.t
        [] sort = "priority" -> Rank(sorted[i]) >= Rank(sorted[j])
        [] sort = "dueDate" ->
             /\ IsDef(sorted[j].dueDate) => IsDef(sorted[i].dueDate)
             /\ (IsDef(sorted[i].dueDate) /\ IsDef(sorted[j].dueDate))
                  => Val(sorted[i].dueDate).t <= Val(sorted[j].dueDate).t

\* C26: what sortTodos returns for the mirror, filtered or not, is ordered by
\* the selected key: createdAt non-increasing for 'created', rank
\* non-increasing for 'priority'; for 'dueDate' the entities with a due date
\* come before those without one, in non-decreasing order of due date.
C26_SortOrder ==
  \A filter \in FilterTypes, sort \in SortTypes :
    OrderedBy(sortTodos(filterTodos(state.todos, filter), sort), sort)

\* a mirror that is in the order of none of the three keys
C26_Witness ==
  /\ \A sort \in SortTypes : ~OrderedBy(state.todos, sort)
  /\ \E i, j \in DOMAIN state.todos :
       /\ i < j
       /\ IsDef(state.todos[i].dueDate) /\ IsDef(state.todos[j].dueDate)
       /\ Val(state.todos[i].dueDate).t > Val(state.todos[j].dueDate).t
  /\ \E i, j \in DOMAIN state.todos :
       i < j /\ ~IsDef(state.todos[i].dueDate) /\ IsDef(state.todos[j].dueDate)

\* how many times the value occurs in the sequence
Occurrences(seq, x) == Cardinality({i \in DOMAIN seq : seq[i] = x})

IsPermutationOf(a, b) ==
  /\ Len(a) = Len(b)
  /\ \A x \in Range(a) \cup Range(b) : Occurrences(a, x) = Occurrences(b, x)

C28_ServerTimestamps ==
  /\ \A i \in DOMAIN server.todos :
       server.todos[i].updatedAt.t >= server.todos[i].createdAt.t
  /\ \A i \in DOMAIN server.todos, dto \in ServiceUpdateDtos, now \in {clock, clock + 1} :
       LET sv == ServiceUpdate(server, server.todos[i].id, dto, now)
       IN \A k \in DOMAIN server.todos :
            /\ sv.todos[k].createdAt = server.todos[k].createdAt
            /\ sv.todos[k].updatedAt.t >= server.todos[k].updatedAt.t
            /\ sv.todos[k].updatedAt.t >= sv.todos[k].createdAt.t

\* seed entity '1' after two update calls, the second one just made
C28_Witness ==
  \E i \in DOMAIN server.todos :
    /\ server.todos[i].id = "1"
    /\ server.idCounter = 6
    /\ server.todos[i].title = "edited"
    /\ server.todos[i].completed
    /\ server.todos[i].updatedAt = DateObj(clock)
    /\ server.todos[i].createdAt.t < clock - 1

\* the ids of the stored entities, in the order of the store
IdSequence(sv) == [i \in DOMAIN sv.todos |-> sv.todos[i].id]

\* C29: initializeSeedData on an empty store leaves exactly five entities,
\* with the ids '1' to '5'; on a store that is not empty it changes nothing;
\* and the entity created next after the seeding, whether or not seed
\* entities were updated or removed in between, gets the id '6'.
C29_SeedData ==
  /\ IdSequence(initializeSeedData(NewTodoService, clock + 1)) = <<"1", "2", "3", "4", "5">>
  /\ server.todos = <<>> =>
       LET seeded == initializeSeedData(server, clock + 1)
       IN /\ IdSequence(seeded) = <<"1", "2", "3", "4", "5">>
          /\ \A dto \in ServiceCreateDtos :
               IdSequence(ServiceCreate(seeded, dto, clock + 1)) = <<"1", "2", "3", "4", "5", "6">>
  /\ server.todos # <<>> => initializeSeedData(server, clock + 1) = server
  /\ (server.idCounter = 6 /\ Range(IdSequence(server)) \subseteq {"1", "2", "3", "4", "5"}) =>
       \A dto \in ServiceCreateDtos :
         LET sv == ServiceCreate(server, dto, clock + 1)
         IN /\ sv.todos[Len(sv.todos)].id = "6"
            /\ SubSeq(sv.todos, 1, Len(server.todos)) = server.todos

\* seeded by the first call, left alone by the second, and one entity
\* created by the third
C29_Witness ==
  /\ clock = 3
  /\ IdSequence(server) = <<"1", "2", "3", "4", "5", "6">>
  /\ server.todos[1].createdAt = DateObj(1)
  /\ \A i \in 1..5 : server.todos[i].updatedAt.t <= 1
  /\ server.todos[6].createdAt = DateObj(3)

\* the optimistic change of the mutation is in the store
Applied(s, t) ==
  CASE t.kind = "createTodo" ->
         /\ t.optimistic \in Entries(s, t.id)
         /\ HasRecord(s, t.id) /\ s.optimisticOperations[t.id] = "creating"
    [] t.kind \in {"updateTodo", "toggleTodoComplete"} ->
         /\ ~NotFound(s, t.id)
         /\ s.todos[FindIndex(s.todos, t.id)] = t.optimistic
         /\ HasRecord(s, t.id) /\ s.optimisticOperations[t.id] = "updating"
    [] t.kind = "deleteTodo" ->
         HasRecord(s, t.id) /\ s.optimisticOperations[t.id] = "deleting"
    [] OTHER -> TRUE

\* C30: in the state in which the remote request of a create, an update, a
\* toggle or a delete goes out, the optimistic change of that mutation is
\* applied; and a step that processes the confirmation or the rollback of a
\* mutation is a later step: the request was out before it.
C30_OptimisticApplyFirst ==
  [][/\ \A r \in 1..Len(thunks') :
          r > Len(thunks) => (thunks'[r].status = "pending" /\ Applied(state', thunks'[r]))
     /\ \A r \in 1..Len(thunks') :
          thunks'[r].status \in {"fulfilled", "rejected"}
            => /\ r \in Requests
               /\ thunks[r].status # thunks'[r].status => InFlight(r)
    ]_vars

\* a create, an update or a toggle, and a delete, all three with their
\* request out and unanswered, the store showing the change of the last one
C30_Witness ==
  \E c, u, d \in Requests :
    /\ thunks[c].kind = "createTodo"
    /\ thunks[u].kind \in {"updateTodo", "toggleTodoComplete"}
    /\ thunks[d].kind = "deleteTodo"
    /\ \A r \in {c, u, d} : thunks[r].status = "pending"
    /\ Applied(state, thunks[Len(thunks)])

\* the change sets a caller can hand to update: nothing provided, one field
\* provided, every field provided
ChangeSets ==
  {NoChange}
    \cup {[NoChange EXCEPT !.title = Some("renamed")],
          [NoChange EXCEPT !.description = Some("noted")],
          [NoChange EXCEPT !.completed = Some(TRUE)],
          [NoChange EXCEPT !.completed = Some(FALSE)],
          [NoChange EXCEPT !.priority = Some("low")],
          [NoChange EXCEPT !.dueDate = Some(EmptyStr)],
          [NoChange EXCEPT !.dueDate = Some(DateStr(3 * Day))]}
    \cup {[title |-> Some("renamed"), description |-> Some("noted"),
           completed |-> Some(completed), priority |-> Some("low"),
           dueDate |-> Some(dueDate)] :
            completed \in BOOLEAN, dueDate \in {EmptyStr, DateStr(3 * Day)}}

\* C31: TodoService.update(id, dto) leaves the id, the createdAt and every
\* field the dto does not provide as they were on the entity with the id,
\* gives the provided fields the provided values, and leaves every other
\* stored entity, the length and the order of the collection unchanged.
C31_ServerPartialUpdate ==
  \A i \in DOMAIN server.todos, dto \in ChangeSets :
    LET old == server.todos[i]
        sv == ServiceUpdate(server, old.id, dto, clock + 1)
        new == sv.todos[i]
    IN /\ Len(sv.todos) = Len(server.todos)
       /\ sv.idCounter = server.idCounter
       /\ \A k \in DOMAIN server.todos : k # i => sv.todos[k] = server.todos[k]
       /\ new.id = old.id
       /\ new.createdAt = old.createdAt
       /\ new.title = IF IsDef(dto.title) THEN Val(dto.title) ELSE old.title
       /\ new.description = IF IsDef(dto.description) THEN dto.description ELSE old.description
       /\ new.completed = IF IsDef(dto.completed) THEN Val(dto.completed) ELSE old.completed
       /\ new.priority = IF IsDef(dto.priority) THEN Val(dto.priority) ELSE old.priority
       /\ ~IsDef(dto.dueDate) => new.dueDate = old.dueDate
       /\ IsDef(dto.dueDate) =>
            DueDateOf(new) = (IF Val(dto.dueDate) = EmptyStr THEN Undef
                              ELSE Some(Val(dto.dueDate).t))

\* seed entity '2' after an update that provided completed only, the rest of
\* the seed data as it was
C31_Witness ==
  /\ IdSequence(server) = <<"1", "2", "3", "4", "5">>
  /\ server.todos[2].completed
  /\ server.todos[2].title = "Filtering"
  /\ server.todos[2].priority = "high"
  /\ IsDef(server.todos[2].dueDate)
  /\ server.todos[2].updatedAt = DateObj(clock)
  /\ \A k \in {1, 3, 4, 5} : server.todos[k].updatedAt.t < clock - 1

\* the store after the result of thunk r, as it stands, is processed: the
\* confirmation of an answered call, the rollback of a failed one or of one
\* that gets no answer
AfterResult(r) ==
  CASE thunks[r].status = "ok" -> Fulfilled(state, thunks[r])
    [] thunks[r].status = "failed" -> Rejected(state, thunks[r])
    [] OTHER -> Rejected(state, [thunks[r] EXCEPT !.payload = NetworkError])

\* the delete d was confirmed and its identifier is gone from the mirror
DeleteConfirmed(d) ==
  /\ thunks[d].kind = "deleteTodo"
  /\ thunks[d].status = "fulfilled"
  /\ Count(state, thunks[d].id) = 0

\* C32: when deleteTodo on X has been fulfilled and the mirror holds no
\* entity with id X, processing the confirmation or the rollback of an update
\* or a toggle on X that is still in flight leaves the mirror without an
\* entity with id X.
C32_ConfirmedDeleteIsFinal ==
  \A d, u \in Requests :
    (DeleteConfirmed(d) /\ IsUpdate(u) /\ thunks[u].id = thunks[d].id /\ InFlight(u))
      => /\ Count(AfterResult(u), thunks[d].id) = 0
         /\ AfterResult(u).todos = state.todos

\* a delete on X confirmed and X out of the mirror, while an update or a
\* toggle on X, dispatched before the delete and answered by the server with
\* the updated entity, waits for its confirmation to be processed
C32_Witness ==
  \E d, u \in Requests :
    /\ DeleteConfirmed(d)
    /\ IsUpdate(u) /\ thunks[u].id = thunks[d].id
    /\ u \in thunks[d].with
    /\ thunks[u].status = "ok"
    /\ AfterResult(u).optimisticOperations = state.optimisticOperations

\* C33: while a deleteTodo on X is in flight, from its submission until it
\* resolves, optimisticOperations[X] is 'deleting', whatever confirmation or
\* rollback of an update or a toggle on X is processed meanwhile.
C33_DeletingMarkLasts ==
  \A d \in Requests :
    (thunks[d].kind = "deleteTodo" /\ InFlight(d))
      => /\ HasRecord(state, thunks[d].id)
         /\ state.optimisticOperations[thunks[d].id] = "deleting"

\* the two entities agree on id, title, description, completed, priority,
\* the instant of the due date and createdAt
AgreeButUpdatedAt(a, b) ==
  /\ a.id = b.id
  /\ a.title = b.title
  /\ a.description = b.description
  /\ a.completed = b.completed
  /\ a.priority = b.priority
  /\ DueDateOf(a) = DueDateOf(b)
  /\ a.createdAt.t = b.createdAt.t

\* the entity the server stores under the id, as the client receives it
ServerEntity(id) == ToJSON(server.todos[FindIndex(server.todos, id)])

\* C34: when the baseline of an update or a toggle equals the entity the
\* server holds as its request arrives, the entity the server returns agrees
\* with the optimistic entity on title, description, completed, priority and
\* due date, so the confirmation changes updatedAt only; and so do the
\* overlay of updateTodo and TodoService.update for every change set.
C34_OptimisticPredictsServer ==
  \A r \in Requests :
    (/\ IsUpdate(r) /\ thunks[r].status = "pending"
     /\ ~NotFound(server, thunks[r].id)
     /\ thunks[r].originalTodo = ServerEntity(thunks[r].id))
      => LET t == thunks[r]
             answered == [t EXCEPT !.payload = UpdateResponse(t)]
         IN /\ AgreeButUpdatedAt(t.optimistic, answered.payload)
            /\ \A e \in Entries(state, t.id) :
                 e = t.optimistic =>
                   \A c \in Entries(Fulfilled(state, answered), t.id) :
                     AgreeButUpdatedAt(c, e)
            /\ \A todoData \in ChangeSets :
                 AgreeButUpdatedAt(
                   UpdatedTodo(t.originalTodo, todoData, clock + 1),
                   ToJSON(UpdatedEntity(server.todos[FindIndex(server.todos, t.id)],
                                        todoData, clock + 1)))

\* an updateTodo that empties the due date of an entity that had one, its
\* request out, its baseline the entity the server holds, the optimistic
\* entity in the mirror
C34_Witness ==
  \E r \in Requests :
    /\ thunks[r].kind = "updateTodo" /\ thunks[r].status = "pending"
    /\ ~NotFound(server, thunks[r].id)
    /\ thunks[r].originalTodo = ServerEntity(thunks[r].id)
    /\ IsDef(thunks[r].originalTodo.dueDate)
    /\ thunks[r].todoData.dueDate = Some(EmptyStr)
    /\ thunks[r].optimistic \in Entries(state, thunks[r].id)

\* the identifier the confirmation of thunk t looks up, and the entity it
\* puts in its place
ConfirmedKey(t) == IF t.kind = "createTodo" THEN t.payload.tempId ELSE t.payload.id
ConfirmedEntity(t) == IF t.kind = "createTodo" THEN t.payload.newTodo ELSE t.payload

\* C35: processing createTodo.fulfilled, updateTodo.fulfilled or
\* toggleTodoComplete.fulfilled leaves state.todos with its length and with
\* every entry at its position; the one entry it may replace is the first
\* one with the looked-up id, and the confirmed entity takes its position.
C35_ConfirmationKeepsOrder ==
  \A r \in Requests :
    (thunks[r].status = "ok" /\ thunks[r].kind \in {"createTodo", "updateTodo", "toggleTodoComplete"})
      => LET t == thunks[r]
             after == Fulfilled(state, t).todos
             index == FindIndex(state.todos, ConfirmedKey(t))
         IN /\ Len(after) = Len(state.todos)
            /\ \A k \in DOMAIN state.todos : k # index => after[k] = state.todos[k]
            /\ index # 0 => after[index] = ConfirmedEntity(t)
            /\ Cardinality({k \in DOMAIN state.todos : after[k] # state.todos[k]}) <= 1

\* the server has answered a createTodo whose temporary entity is not the
\* last entry of the mirror, and an update on an entry in the middle
C35_Witness ==
  /\ \E r \in Requests :
       /\ thunks[r].kind = "createTodo" /\ thunks[r].status = "ok"
       /\ FindIndex(state.todos, thunks[r].id) \in 1..(Len(state.todos) - 1)
  /\ \E r \in Requests :
       /\ IsUpdate(r) /\ thunks[r].status = "ok"
       /\ FindIndex(state.todos, thunks[r].id) # 0

\* C36: a step that processes a successful result leaves state.error as it
\* was; state.error changes only in a setError step, in the dispatch of a
\* fetchTodos, which clears it, or when a failure is processed, which puts
\* its message there.
C36_ErrorPersists ==
  [][/\ \A r \in Requests : Fulfilling(r) => state'.error = state.error
     /\ state'.error # state.error =>
          \/ /\ Len(thunks') = Len(thunks)
             /\ \A r \in Requests : thunks'[r].status = thunks[r].status
             /\ state' = setError(state, state'.error)
          \/ /\ Len(thunks') = Len(thunks) + 1
             /\ thunks'[Len(thunks')].kind = "fetchTodos"
             /\ state'.error = Null
          \/ \E r \in Requests :
               Rejecting(r) /\ state'.error = Some(thunks'[r].payload)
    ]_vars

\* a mutation has failed, a mutation dispatched after that has been
\* confirmed, and state.error is still the message of the failure
C36_Witness ==
  \E r, q \in Requests :
    /\ IsMutation(r) /\ thunks[r].status = "rejected"
    /\ IsMutation(q) /\ thunks[q].status = "fulfilled"
    /\ r < q /\ r \notin thunks[q].with
    /\ state.error = Some(thunks[r].payload)

\* how many of the entities have the completion flag
CountCompleted(todos, flag) == Cardinality({i \in DOMAIN todos : todos[i].completed = flag})

\* C37: getStatistics returns total = completed + active, the three
\* byPriority counts add up to total, and total is the number of entities
\* TodoService stores; the statistics TodoFilters shows satisfy
\* total = active + completed over state.todos.
C37_StatisticsConsistent ==
  LET stats == getStatistics(server)
      shown == Statistics(state.todos)
  IN /\ stats.total = Len(server.todos)
     /\ stats.total = stats.completed + stats.active
     /\ stats.byPriority.high + stats.byPriority.medium + stats.byPriority.low = stats.total
     /\ stats.completed = CountCompleted(server.todos, TRUE)
     /\ stats.active = CountCompleted(server.todos, FALSE)
     /\ shown.totalTodos = Len(state.todos)
     /\ shown.totalTodos = shown.activeTodos + shown.completedTodos
     /\ shown.completedTodos = CountCompleted(state.todos, TRUE)
     /\ shown.activeTodos = CountCompleted(state.todos, FALSE)

\* the server holds six entities, more than one of them completed, the
\* mirror holds them with another number of completed ones
C37_Witness ==
  /\ Len(server.todos) = 6
  /\ getStatistics(server).completed >= 2
  /\ getStatistics(server).active >= 2
  /\ Len(state.todos) = 6
  /\ Statistics(state.todos).completedTodos # getStatistics(server).completed

====
